---- MODULE Spec2Model ----
(***************************************************************************)
(* Wallet-based nonce authentication of DilSe Matchify                     *)
(* (backend/server.js) over the auth_nonces, wallet_addresses, profiles    *)
(* and auth.users tables of the schema migrations.                         *)
(*                                                                         *)
(* Every HTTP request is a process.  A handler yields at each `await` on a *)
(* store call, so an action is a store call together with the code that    *)
(* runs on its result up to the next store call.  The store applies the    *)
(* table constraints of the migrations (UNIQUE, REFERENCES, the            *)
(* single-primary trigger); row-level policies are not part of this model. *)
(*                                                                         *)
(* The clock counts periods of five minutes.  A handler runs for           *)
(* milliseconds, so the clock advances while no handler is running.        *)
(*                                                                         *)
(* A request that is answered with an error before its handler wrote       *)
(* anything is kept in `rejected` until the client has read the answer;    *)
(* it leaves nothing else behind, and such requests are taken while no     *)
(* handler is running.  Every other request occupies one slot of Reqs,     *)
(* which keeps its response.  `failures` remembers, per nonce, the kinds   *)
(* of refusal that verify has answered after it had found the nonce.       *)
(*                                                                         *)
(* Spec starts from the empty store; SpecSession starts from the state     *)
(* that one completed first login of wallet 1 leaves behind.               *)
(* SpecTwoSessions starts with two identities that hold a token each and   *)
(* takes link-wallet requests only.  SpecResponses lets every store call   *)
(* fail or throw and states that every store call comes back.              *)
(*                                                                         *)
(* The browser modules are modelled beside the server: sendLike and        *)
(* createMatch of js/matching.js over the likes and matches tables         *)
(* (SpecLikes), calculateCompatibility as findMatches applies it           *)
(* (SpecScoring), and the Web3AuthManager with localStorage (SpecWeb3),    *)
(* where the server's answers are any of those the endpoints can give.     *)
(***************************************************************************)
EXTENDS Integers, FiniteSets, Sequences, TLC

\* ---------------------------------------------------------------- bounds
MaxReq      == 2    \* requests that get past their first checks
MaxNonces   == 2    \* nonces stored in one behaviour
MaxTime     == 2    \* last period the clock reaches
NumAddr     == 2    \* distinct wallets (key pairs)

\* ------------------------------------------------------ program constants
NonceTTL == 1       \* 5 * 60 * 1000 ms: one period
TokenTTL == 2016    \* expiresIn: '7d', in periods
SweepAge == 12      \* interval '1 hour', in periods

Reqs    == 1..MaxReq
AddrIds == 1..NumAddr

\* ------------------------------------------------------------- addresses
\* A wallet address as text: the same 20 bytes (id) written in EIP-55
\* checksum case or in lower case; "bad" is text that is no address.
Null     == [k |-> "null"]
BadAddr  == [k |-> "addr", id |-> 0, form |-> "bad"]

\* The texts clients send: wallets with an odd id are written in lower
\* case, the others in checksum case.
Written(a) == [k |-> "addr", id |-> a,
               form |-> IF a % 2 = 1 THEN "lower" ELSE "checksum"]
RawAddrs == {Written(a) : a \in AddrIds} \cup {BadAddr}

isAddress(w)   == w.k = "addr" /\ w.form # "bad"

\* Variant: the address is used as it was sent
getAddress_asSent(w) == w

getAddress(w)  == [k |-> "addr", id |-> w.id, form |-> "checksum"]
toLowerCase(a) == [k |-> "addr", id |-> a.id, form |-> "lower"]

\* ------------------------------------------------------------- messages
\* The challenge text: preamble, "Nonce: <hex>" segment, timestamp.
\* pre = "std" is the preamble the server writes, "alt" any other text;
\* nonce = 0 is a text without a "Nonce: <hex>" segment.
ChallengeMessage(n, t) == [k |-> "msg", pre |-> "std", nonce |-> n, ts |-> t]

\* message.match(/Nonce: ([a-f0-9]+)/): the hex token, or 0 for no match
ExtractNonce(m) == m.nonce

\* ------------------------------------------------------------ signatures
\* A signature is made with the key of wallet `signer` over text `msg`.
BadSig == [k |-> "sig", signer |-> 0, msg |-> Null]
Sign(a, m) == [k |-> "sig", signer |-> a, msg |-> m]

\* ethers.verifyMessage: throws on malformed bytes (decided by the caller);
\* recovers the signer for the signed text, an unrelated address otherwise.
verifyMessage(m, s) ==
  IF s.msg = m THEN [k |-> "addr", id |-> s.signer, form |-> "checksum"]
               ELSE [k |-> "addr", id |-> 0, form |-> "checksum"]

\* ---------------------------------------------------------------- tokens
NoToken == [k |-> "notoken"]
BadToken == [k |-> "token", userId |-> 0, walletAddress |-> Null,
             authMethod |-> "forged", exp |-> 0]
jwtSign(u, a, t) == [k |-> "token", userId |-> u, walletAddress |-> a,
                     authMethod |-> "wallet", exp |-> t + TokenTTL]

VARIABLES
  now,               \* the clock (Date.now(), in periods)
  auth_nonces,       \* table auth_nonces: sequence of rows, id = index; a
                     \* row that was deleted keeps its place, marked deleted
  wallet_addresses,  \* table wallet_addresses: set of rows
  profiles,          \* table profiles: set of rows
  auth_users,        \* auth.users of the identity service: set of rows
  nextUser,          \* next uuid the identity service hands out
  issued,            \* challenges returned by the nonce endpoint, each with
                     \* the walletAddress of its request
  rejected,          \* the request that was just answered with an error on
                     \* arrival: its response and what held when it arrived
  sessions,          \* the tokens clients hold
  pc,                \* per request: the position of its handler
  loc,               \* per request: the handler's local variables
  hist,              \* per request: what held when it arrived
  resp,              \* per request: the response, once sent
  failures           \* the verify attempts that were refused after their
                     \* nonce was found: nonce value and kind of failure

\* The browser side (js/matching.js, js/web3-auth.js) and its tables.
VARIABLES
  people,            \* table profiles, the columns that matching reads,
                     \* with partner_preferences joined: user id -> row
  likes,             \* table likes: set of rows
  matches,           \* table matches: set of rows
  calls,             \* per sendLike call: its position, locals and result
  scores,            \* what findMatches returned last
  web3               \* the Web3AuthManager object, localStorage, and the
                     \* authenticateWithWallet calls in progress

frontend == <<people, likes, matches, calls, scores, web3>>

backend == <<now, auth_nonces, wallet_addresses, profiles, auth_users,
             nextUser, issued, rejected, sessions, pc, loc, hist, resp,
             failures>>

vars == <<now, auth_nonces, wallet_addresses, profiles, auth_users, nextUser,
          issued, rejected, sessions, pc, loc, hist, resp, failures, frontend>>

store == <<auth_nonces, wallet_addresses, profiles, auth_users, nextUser>>

NoLoc  == [kind |-> "none"]
NoHist == [endpoint |-> "none"]
NoRejection == [endpoint |-> "none"]
NoResp == [endpoint |-> "none", status |-> 0, token |-> NoToken]

\* No page of the frontend is open.
FrontendIdle ==
  /\ people = << >>
  /\ likes = {}
  /\ matches = {}
  /\ calls = << >>
  /\ scores = {}
  /\ web3 = [kind |-> "none"]

\* The server has started on an empty store.
ServerStart ==
  /\ now = 0
  /\ auth_nonces = << >>
  /\ wallet_addresses = {}
  /\ profiles = {}
  /\ auth_users = {}
  /\ nextUser = 1
  /\ issued = {}
  /\ rejected = NoRejection
  /\ pc = [r \in Reqs |-> "idle"]
  /\ loc = [r \in Reqs |-> NoLoc]
  /\ hist = [r \in Reqs |-> NoHist]
  /\ resp = [r \in Reqs |-> NoResp]
  /\ sessions = {}
  /\ failures = {}

Init == ServerStart /\ FrontendIdle

\* The client of the last rejected request has read its answer.
Ready == rejected = NoRejection

\* No handler is between two of its store calls.
Quiet == \A r \in Reqs : pc[r] \in {"idle", "done"}

\* The clock is read from the moment the first nonce is stored.
Tick ==
  /\ Ready
  /\ now < MaxTime
  /\ Quiet
  /\ auth_nonces # << >>
  /\ now' = now + 1
  /\ UNCHANGED <<store, issued, rejected, sessions, pc, loc, hist, resp,
                 failures, frontend>>

\* The error texts of verify that are sent after the nonce row was found,
\* and the kind of failure each one reports.
AttemptErrors == {"Nonce has expired", "Invalid signature",
                  "Signature does not match wallet address"}
FailureKind(err) == IF err = "Nonce has expired" THEN "expired" ELSE "signature"

\* An error response sent before the handler's first store write.
Reject(ep, h, st, err) ==
  /\ Quiet
  /\ rejected' = [endpoint |-> ep, status |-> st, error |-> err,
                  token |-> NoToken, arrival |-> h]
  /\ failures' = IF ep = "verify" /\ err \in AttemptErrors
                 THEN failures \cup {[nonce |-> h.nonce, kind |-> FailureKind(err)]}
                 ELSE failures
  /\ UNCHANGED frontend
  /\ UNCHANGED <<now, store, issued, sessions, pc, loc, hist, resp>>

\* The client reads the error response; the rejected request is over.
Dismiss ==
  /\ rejected # NoRejection
  /\ rejected' = NoRejection
  /\ UNCHANGED <<now, store, issued, sessions, pc, loc, hist, resp, failures, frontend>>

\* Requests are numbered in the order in which their handlers start.
Arrives(r) == pc[r] = "idle" /\ \A q \in Reqs : q < r => pc[q] # "idle"

\* A handler sends its response and ends.
Finish(r, response) ==
  /\ pc' = [pc EXCEPT ![r] = "done"]
  /\ resp' = [resp EXCEPT ![r] = response]
  /\ sessions' = IF response.token = NoToken THEN sessions
                                             ELSE sessions \cup {response.token}
  /\ UNCHANGED <<loc, hist, failures, frontend>>

\* Variant: the handler ends on the error without sending a response
Fail_silent(r, st, err) ==
  /\ pc' = [pc EXCEPT ![r] = "done"]
  /\ UNCHANGED <<resp, sessions, loc, hist, failures, frontend>>

\* An error response sent in the middle of a handler.
Fail(r, st, err) ==
  Finish(r, [endpoint |-> hist[r].endpoint, status |-> st,
             error |-> err, token |-> NoToken])

\* ------------------------------------------------- GET /api/auth/nonce
\* crypto.randomBytes(32).toString('hex'): a value not seen before
generateNonce == Len(auth_nonces) + 1

\* What held of the request when it arrived: its address is no address.
NonceArrival(wa) == [endpoint |-> "nonce", malformed |-> ~isAddress(wa)]

NonceRequest ==
  /\ Ready
  /\ \E wa \in RawAddrs :
    IF ~isAddress(wa)
    THEN Reject("nonce", NonceArrival(wa), 400, "Invalid wallet address")
    ELSE LET checksummedAddress == getAddress(wa)
             nonce     == generateNonce
             expiresAt == now + NonceTTL
         IN  /\ nonce <= MaxNonces
             /\ auth_nonces' = Append(auth_nonces,
                    [wallet_address |-> checksummedAddress, nonce |-> nonce,
                     expires_at |-> expiresAt, used |-> FALSE,
                     deleted |-> FALSE])
             /\ issued' = issued \cup
                    {[nonce |-> nonce, message |-> ChallengeMessage(nonce, now),
                      expiresAt |-> expiresAt, walletAddress |-> wa]}
             /\ UNCHANGED <<now, wallet_addresses, profiles, auth_users,
                            nextUser, rejected, sessions, pc, loc, hist, resp,
                            failures, frontend>>

\* ------------------------------------------------ POST /api/auth/verify
\* What a client can send as message: an issued challenge, the same text
\* with another preamble, a text naming a nonce that was never issued, a
\* text without a nonce segment.
NeverIssued == MaxNonces + 1
NoNonceMsg  == ChallengeMessage(0, 0)

NonceMsgs ==
  {c.message : c \in issued}
    \cup {[c.message EXCEPT !.pre = "alt"] : c \in issued}
    \cup {ChallengeMessage(NeverIssued, 0)}

\* Signatures a client can send with message m and claimed wallet w: by
\* the claimed wallet's key or by another key over m, by the claimed
\* wallet's key over the issued challenge that names the same nonce, or
\* malformed bytes.
SigInputs(w, m) ==
  {Sign(w.id, m), Sign((w.id % NumAddr) + 1, m), BadSig}
    \cup {Sign(w.id, c.message) : c \in {x \in issued : x.nonce = ExtractNonce(m)}}

VerifyInputs ==
  {<<Null, NoNonceMsg, BadSig>>, <<Written(1), Null, BadSig>>,
   <<Written(1), NoNonceMsg, Null>>, <<BadAddr, NoNonceMsg, BadSig>>,
   <<Written(1), NoNonceMsg, BadSig>>}
    \cup UNION {{<<Written(a), m, s>> : s \in SigInputs(Written(a), m)} :
                  a \in AddrIds, m \in NonceMsgs}

\* Variant: the select without .eq('used', false)
SelectNonce_anyUse(nonce, checksummedAddress) ==
  {i \in DOMAIN auth_nonces :
      /\ ~auth_nonces[i].deleted
      /\ auth_nonces[i].nonce = nonce
      /\ auth_nonces[i].wallet_address = checksummedAddress}

\* Variant: the select without .eq('wallet_address', checksummedAddress)
SelectNonce_anyAddress(nonce, checksummedAddress) ==
  {i \in DOMAIN auth_nonces :
      /\ ~auth_nonces[i].deleted
      /\ auth_nonces[i].nonce = nonce
      /\ auth_nonces[i].used = FALSE}

\* The same select on the table that keeps the rows the cleanup deleted.
SelectKept(nonce, checksummedAddress) ==
  {i \in DOMAIN auth_nonces :
      /\ auth_nonces[i].nonce = nonce
      /\ auth_nonces[i].wallet_address = checksummedAddress
      /\ auth_nonces[i].used = FALSE}

\* .from('auth_nonces').select('*').eq('nonce', nonce)
\*    .eq('wallet_address', checksummedAddress).eq('used', false)
SelectNonce(nonce, checksummedAddress) ==
  {i \in DOMAIN auth_nonces :
      /\ ~auth_nonces[i].deleted
      /\ auth_nonces[i].nonce = nonce
      /\ auth_nonces[i].wallet_address = checksummedAddress
      /\ auth_nonces[i].used = FALSE}

\* Variant: the handler without its expiry check
NonceExpired_never(nonceData, t) == FALSE

\* Variant: the comparison written as an equality
NonceExpired_onlyAtExpiry(nonceData, t) == nonceData.expires_at = t

\* new Date(nonceData.expires_at) < new Date()
NonceExpired(nonceData, t) == nonceData.expires_at < t

\* Variant: the handler without the comparison of the recovered address
AddressMismatch_never(recoveredAddress, checksummedAddress) == FALSE

\* recoveredAddress.toLowerCase() !== checksummedAddress.toLowerCase()
AddressMismatch(recoveredAddress, checksummedAddress) ==
  toLowerCase(recoveredAddress) # toLowerCase(checksummedAddress)

\* The rows of auth_nonces that carry nonce value n (UNIQUE: at most one).
RowsOf(n) == {i \in DOMAIN auth_nonces : /\ ~auth_nonces[i].deleted
                                          /\ auth_nonces[i].nonce = n}

\* What held of the request (walletAddress, signature, message) when it
\* arrived, stated without reference to the handler's control flow;
\* `failed` is the kinds of failure of the earlier attempts with its nonce;
\* `malformed`: all fields are there and the address is no address.
Arrival(wa, sig, msg) ==
  LET present == wa # Null /\ sig # Null /\ msg # Null
      formed  == present /\ isAddress(wa) /\ ExtractNonce(msg) # 0
  IN  IF ~formed
      THEN [endpoint |-> "verify", wellFormed |-> FALSE,
            malformed |-> present /\ ~isAddress(wa)]
      ELSE
      LET n       == ExtractNonce(msg)
          claimed == getAddress(wa)
      IN  [endpoint   |-> "verify",
           wellFormed |-> TRUE,
           nonce      |-> n,
           address    |-> claimed,
           validSig   |-> sig # BadSig /\ verifyMessage(msg, sig) = claimed,
           stored     |-> \E i \in RowsOf(n) :
                              auth_nonces[i].wallet_address = claimed,
           unused     |-> \E i \in RowsOf(n) : ~auth_nonces[i].used,
           passed     |-> \E i \in RowsOf(n) : auth_nonces[i].expires_at < now,
           failed     |-> {f.kind : f \in {x \in failures : x.nonce = n}}]

\* What held in addition of a request that went past the checks: the
\* message is the issued challenge; a later nonce exists for the address.
Honoured(h, msg) ==
  [endpoint   |-> h.endpoint,   wellFormed |-> h.wellFormed,
   nonce      |-> h.nonce,      address    |-> h.address,
   validSig   |-> h.validSig,   stored     |-> h.stored,
   unused     |-> h.unused,     passed     |-> h.passed,
   failed     |-> h.failed,
   exact      |-> \E c \in issued : c.message = msg,
   newer      |-> \E i \in RowsOf(h.nonce) : \E j \in DOMAIN auth_nonces :
                     /\ j > i
                     /\ auth_nonces[j].wallet_address
                          = auth_nonces[i].wallet_address]

\* The answer of the handler's checks, in the order of the code: the error
\* response it sends, or status 0 and the id of the nonce row when the
\* request passes them all.
Refusal(st, err) == [status |-> st, error |-> err, id |-> 0]

\* `kept`: the select reads the table that keeps what the cleanup deleted.
VerifyChecksIn(kept, wa, sig, msg) ==
  IF wa = Null \/ sig = Null \/ msg = Null
  THEN Refusal(400, "Missing required fields")
  ELSE IF ~isAddress(wa)
  THEN Refusal(400, "Invalid wallet address")
  ELSE
    LET checksummedAddress == getAddress(wa)
        nonce == ExtractNonce(msg)
        rows  == IF kept THEN SelectKept(nonce, checksummedAddress)
                         ELSE SelectNonce(nonce, checksummedAddress)
    IN
    IF nonce = 0
    THEN Refusal(400, "Invalid message format")
    ELSE IF Cardinality(rows) # 1
    THEN Refusal(401, "Invalid or expired nonce")
    ELSE
      LET id == CHOOSE i \in rows : TRUE
          nonceData == auth_nonces[id]
      IN
      IF NonceExpired(nonceData, now)
      THEN Refusal(401, "Nonce has expired")
      ELSE IF sig = BadSig
      THEN Refusal(401, "Invalid signature")
      ELSE IF AddressMismatch(verifyMessage(msg, sig), checksummedAddress)
      THEN Refusal(401, "Signature does not match wallet address")
      ELSE [status |-> 0, error |-> "", id |-> id]

VerifyChecks(wa, sig, msg) == VerifyChecksIn(FALSE, wa, sig, msg)

VerifyBegin ==
  /\ Ready
  /\ \E in \in VerifyInputs :
    LET wa  == in[1]
        msg == in[2]
        sig == in[3]
        h   == Arrival(wa, sig, msg)
        c   == VerifyChecks(wa, sig, msg)
    IN
    IF c.status # 0
    THEN Reject("verify", h, c.status, c.error)
    ELSE \E r \in Reqs :
           /\ Arrives(r)
           /\ pc' = [pc EXCEPT ![r] = "v_update"]
           /\ loc' = [loc EXCEPT ![r] =
                [kind |-> "verify", checksummedAddress |-> getAddress(wa),
                 nonceId |-> c.id, userId |-> 0, isNewUser |-> FALSE]]
           /\ hist' = [hist EXCEPT ![r] = Honoured(h, msg)]
           /\ UNCHANGED <<now, store, issued, rejected, sessions, resp,
                          failures, frontend>>

\* Variant: the update writes used: false
VerifyUpdate_clears(r) ==
  /\ Ready
  /\ pc[r] = "v_update"
  /\ auth_nonces' = [auth_nonces EXCEPT ![loc[r].nonceId].used = FALSE]
  /\ pc' = [pc EXCEPT ![r] = "v_lookup"]
  /\ UNCHANGED <<now, wallet_addresses, profiles, auth_users, nextUser,
                 issued, rejected, sessions, loc, hist, resp, failures, frontend>>

\* .from('auth_nonces').update({ used: true }).eq('id', nonceData.id)
VerifyUpdate(r) ==
  /\ Ready
  /\ pc[r] = "v_update"
  /\ auth_nonces' = [auth_nonces EXCEPT ![loc[r].nonceId].used = TRUE]
  /\ pc' = [pc EXCEPT ![r] = "v_lookup"]
  /\ UNCHANGED <<now, wallet_addresses, profiles, auth_users, nextUser,
                 issued, rejected, sessions, loc, hist, resp, failures, frontend>>

\* jwt.sign(...) and res.json({ success: true, ... })
Succeed(r, userId, isNewUser) ==
  Finish(r, [endpoint |-> "verify", status |-> 200, error |-> "",
             token |-> jwtSign(userId, loc[r].checksummedAddress, now),
             userId |-> userId, walletAddress |-> loc[r].checksummedAddress,
             isNewUser |-> isNewUser])

\* Variant: the lookup finds no row
SelectWallet_none(checksummedAddress) == {}

\* .from('wallet_addresses').select('user_id, profiles(*)')
\*    .eq('wallet_address', checksummedAddress).maybeSingle()
SelectWallet(checksummedAddress) ==
  {w \in wallet_addresses : w.wallet_address = checksummedAddress}

VerifyLookup(r) ==
  /\ Ready
  /\ pc[r] = "v_lookup"
  /\ LET found == SelectWallet(loc[r].checksummedAddress)
     IN IF Cardinality(found) = 1
        THEN LET walletData == CHOOSE w \in found : TRUE
             IN Succeed(r, walletData.user_id, FALSE)
        ELSE /\ pc' = [pc EXCEPT ![r] = "v_signup"]
             /\ loc' = [loc EXCEPT ![r].isNewUser = TRUE]
             /\ UNCHANGED <<hist, resp, sessions, failures, frontend>>
  /\ UNCHANGED <<now, store, issued, rejected>>

\* supabase.auth.signUp({ email: tempEmail, ... }): the identity service.
\* The e-mail is derived from the address, so it identifies the wallet.
\* For an e-mail that is already registered the service either reports an
\* error or, with e-mail confirmation enabled, answers with a user object
\* that carries a new id and is not stored.
tempEmail(checksummedAddress) == toLowerCase(checksummedAddress)

Registered(email) == \E u \in auth_users : u.email = email

\* profiles: id PRIMARY KEY REFERENCES auth.users(id), email UNIQUE
ProfileInsertError(row, users) ==
  \/ \E p \in profiles : p.id = row.id \/ p.email = row.email
  \/ ~\E u \in users : u.id = row.id

\* .from('profiles').insert(...): an error is logged and the handler goes on
ProfileInsert(row, users) ==
  IF ProfileInsertError(row, users) THEN profiles ELSE profiles \cup {row}

\* The sign-up and the profile insert that follows it.  The profile insert
\* touches only the row of the user that was just returned, which no other
\* handler reads before this one has answered, so the two store calls are
\* one step.
VerifySignUp(r) ==
  /\ Ready
  /\ pc[r] = "v_signup"
  /\ LET email == tempEmail(loc[r].checksummedAddress)
         row   == [id |-> nextUser, email |-> email]
     IN IF Registered(email)
        THEN \/ /\ Fail(r, 500, "Failed to create user account")
                /\ UNCHANGED <<auth_users, nextUser, profiles>>
             \/ /\ pc' = [pc EXCEPT ![r] = "v_wallet"]
                /\ loc' = [loc EXCEPT ![r].userId = nextUser]
                /\ nextUser' = nextUser + 1
                /\ profiles' = ProfileInsert(row, auth_users)
                /\ UNCHANGED <<hist, resp, sessions, auth_users, failures, frontend>>
        ELSE /\ auth_users' = auth_users \cup {row}
             /\ nextUser' = nextUser + 1
             /\ pc' = [pc EXCEPT ![r] = "v_wallet"]
             /\ loc' = [loc EXCEPT ![r].userId = nextUser]
             /\ profiles' = ProfileInsert(row, auth_users \cup {row})
             /\ UNCHANGED <<hist, resp, sessions, failures, frontend>>
  /\ UNCHANGED <<now, auth_nonces, wallet_addresses, issued, rejected>>

\* Variant: the table without UNIQUE on wallet_address
WalletUniqueViolation_never(row) == FALSE

\* wallet_addresses: wallet_address UNIQUE
WalletUniqueViolation(row) ==
  \E w \in wallet_addresses : w.wallet_address = row.wallet_address

\* wallet_addresses: user_id REFERENCES profiles(id)
WalletInsertError(row) ==
  \/ WalletUniqueViolation(row)
  \/ ~\E p \in profiles : p.id = row.user_id

\* trigger enforce_single_primary_wallet (WHEN NEW.is_primary = true): the
\* rows its UPDATE finds, the primary rows of the user of the new row
TriggerSees(row) ==
  IF row.is_primary
  THEN {w \in wallet_addresses : w.user_id = row.user_id /\ w.is_primary}
  ELSE {}

\* The table once the insert of `row` is committed, together with the
\* trigger's update of the rows `seen`.
WalletCommit(row, seen) ==
  {IF w \in seen THEN [w EXCEPT !.is_primary = FALSE] ELSE w :
      w \in wallet_addresses} \cup {row}

\* trigger enforce_single_primary_wallet, then the insert itself, with no
\* other statement on the user's rows in between
WalletInsert(row) == WalletCommit(row, TriggerSees(row))

\* The insert's error is logged and the handler goes on to sign the token.
VerifyWallet(r) ==
  /\ Ready
  /\ pc[r] = "v_wallet"
  /\ LET row == [user_id |-> loc[r].userId,
                 wallet_address |-> loc[r].checksummedAddress,
                 is_primary |-> TRUE]
     IN wallet_addresses' = IF WalletInsertError(row) THEN wallet_addresses
                                                      ELSE WalletInsert(row)
  /\ Succeed(r, loc[r].userId, loc[r].isNewUser)
  /\ UNCHANGED <<now, auth_nonces, profiles, auth_users, nextUser,
                 issued, rejected>>

\* --------------------------------------------- POST /api/auth/link-wallet
\* Tokens a client can present: those returned by verify, and a forgery.
TokenInputs == sessions \cup {BadToken}

Uid(u) == [k |-> "uid", id |-> u]

\* A client sends its own user id with its token, or another user id.
LinkInputs ==
  {<<Null, Uid(1), BadToken>>, <<Written(1), Null, BadToken>>,
   <<Written(1), Uid(1), Null>>}
    \cup {<<wa, Uid(t.userId), t>> : wa \in RawAddrs, t \in TokenInputs}
    \cup {<<Written(1), Uid(t.userId + 1), t>> : t \in TokenInputs}

\* Variant: the handler without jwt.verify
jwtVerifyThrows_never(authToken, t) == FALSE

\* Variant: jwt.verify with ignoreExpiration
jwtVerifyThrows_noExpiry(authToken, t) == authToken.authMethod # "wallet"

\* jwt.verify(authToken, JWT_SECRET) throws: bad signature, or exp reached
jwtVerifyThrows(authToken, t) == authToken.authMethod # "wallet" \/ t >= authToken.exp

\* What held of the request (walletAddress, userId, authToken) when it
\* arrived, stated without reference to the handler's control flow: the
\* token is one the server issued and its time has not come, its subject
\* is the userId of the request, the address is linked already.
LinkArrival(wa, uid, authToken) ==
  IF wa = Null \/ uid = Null \/ authToken = Null
  THEN [endpoint |-> "link", present |-> FALSE]
  ELSE [endpoint   |-> "link",
        present    |-> TRUE,
        userId     |-> uid.id,
        tokenIssued |-> authToken \in sessions,
        tokenValid |-> authToken \in sessions /\ now < authToken.exp,
        subjectOk  |-> authToken.userId = uid.id,
        address    |-> IF isAddress(wa) THEN getAddress(wa) ELSE BadAddr,
        links      |-> Cardinality({w \in wallet_addresses :
                                       w.user_id = uid.id}),
        linked     |-> /\ isAddress(wa)
                       /\ \E w \in wallet_addresses :
                            w.wallet_address = getAddress(wa)]

LinkBegin ==
  /\ Ready
  /\ \E in \in LinkInputs :
    LET wa        == in[1]
        uid       == in[2]
        authToken == in[3]
        h         == LinkArrival(wa, uid, authToken)
    IN
    IF wa = Null \/ uid = Null \/ authToken = Null
    THEN Reject("link", h, 400, "Missing required fields")
    ELSE IF jwtVerifyThrows(authToken, now)
    THEN Reject("link", h, 401, "Invalid or expired token")
    ELSE IF authToken.userId # uid.id
    THEN Reject("link", h, 403, "Unauthorized")
    ELSE IF ~isAddress(wa)      \* ethers.getAddress throws, caught at the end
    THEN Reject("link", h, 500, "Internal server error")
    ELSE
      LET checksummedAddress == getAddress(wa)
      IN IF SelectWallet(checksummedAddress) # {}
         THEN Reject("link", h, 400, "Wallet already linked to another account")
         ELSE \E r \in Reqs :
                /\ Arrives(r)
                /\ pc' = [pc EXCEPT ![r] = "l_count"]
                /\ loc' = [loc EXCEPT ![r] =
                     [kind |-> "link", checksummedAddress |-> checksummedAddress,
                      userId |-> uid.id, isPrimary |-> FALSE,
                      userWallets |-> 0, seen |-> {}]]
                /\ hist' = [hist EXCEPT ![r] = h]
                /\ UNCHANGED <<now, store, issued, rejected, sessions, resp,
                              failures, frontend>>

\* Variant: isPrimary is always true
LinkCount_alwaysPrimary(r) ==
  /\ Ready
  /\ pc[r] = "l_count"
  /\ LET userWallets == {w \in wallet_addresses : w.user_id = loc[r].userId}
     IN loc' = [loc EXCEPT ![r].isPrimary = TRUE,
                           ![r].userWallets = Cardinality(userWallets)]
  /\ pc' = [pc EXCEPT ![r] = "l_insert"]
  /\ UNCHANGED <<now, store, issued, rejected, sessions, hist, resp,
                 failures, frontend>>

\* .from('wallet_addresses').select('id').eq('user_id', userId)
\* isPrimary = !userWallets || userWallets.length === 0
LinkCount(r) ==
  /\ Ready
  /\ pc[r] = "l_count"
  /\ LET userWallets == {w \in wallet_addresses : w.user_id = loc[r].userId}
     IN loc' = [loc EXCEPT ![r].isPrimary = (userWallets = {}),
                           ![r].userWallets = Cardinality(userWallets)]
  /\ pc' = [pc EXCEPT ![r] = "l_insert"]
  /\ UNCHANGED <<now, store, issued, rejected, sessions, hist, resp,
                 failures, frontend>>

\* The row the link-wallet handler inserts.
LinkRow(r) == [user_id |-> loc[r].userId,
               wallet_address |-> loc[r].checksummedAddress,
               is_primary |-> loc[r].isPrimary]

\* .from('wallet_addresses').insert(...): the statement starts.  Its
\* BEFORE INSERT trigger updates the primary rows of the user that are
\* committed at this moment; a row that another statement is inserting at
\* the same time is not among them.
LinkInsert(r) ==
  /\ Ready
  /\ pc[r] = "l_insert"
  /\ loc' = [loc EXCEPT ![r].seen = TriggerSees(LinkRow(r))]
  /\ pc' = [pc EXCEPT ![r] = "l_commit"]
  /\ UNCHANGED <<now, store, issued, rejected, sessions, hist, resp,
                 failures, frontend>>

\* The statement ends: the constraints decide, the row and the trigger's
\* update are committed, and the handler answers.
LinkCommit(r) ==
  /\ Ready
  /\ pc[r] = "l_commit"
  /\ IF WalletInsertError(LinkRow(r))
     THEN /\ Fail(r, 500, "Failed to link wallet")
          /\ UNCHANGED wallet_addresses
     ELSE /\ wallet_addresses' = WalletCommit(LinkRow(r), loc[r].seen)
          /\ Finish(r, [endpoint |-> "link", status |-> 200,
                        error |-> "", token |-> NoToken,
                        walletAddress |-> loc[r].checksummedAddress])
  /\ UNCHANGED <<now, auth_nonces, profiles, auth_users, nextUser,
                 issued, rejected>>

\* ------------------------------------------------------------ behaviours
Next ==
  \/ Tick
  \/ NonceRequest
  \/ VerifyBegin
  \/ \E r \in Reqs : VerifyUpdate(r)
  \/ \E r \in Reqs : VerifyLookup(r)
  \/ \E r \in Reqs : VerifySignUp(r)
  \/ \E r \in Reqs : VerifyWallet(r)
  \/ LinkBegin
  \/ \E r \in Reqs : LinkCount(r)
  \/ \E r \in Reqs : LinkInsert(r)
  \/ \E r \in Reqs : LinkCommit(r)
  \/ Dismiss

Spec == Init /\ [][Next]_vars

\* The state that one completed first login of wallet 1 leaves behind,
\* with its challenge issued at time t: the nonce is used, the identity and
\* its profile exist, the client holds the token; `links` is the content
\* of wallet_addresses.
AfterLogin(t, links) ==
  LET a == getAddress(Written(1))
      u == [id |-> 1, email |-> tempEmail(a)]
  IN  /\ now = 0
      /\ auth_nonces = <<[wallet_address |-> a, nonce |-> 1,
                          expires_at |-> t + NonceTTL, used |-> TRUE,
                          deleted |-> FALSE]>>
      /\ wallet_addresses = links
      /\ profiles = {u}
      /\ auth_users = {u}
      /\ nextUser = 2
      /\ issued = {[nonce |-> 1, message |-> ChallengeMessage(1, t),
                    expiresAt |-> t + NonceTTL, walletAddress |-> Written(1)]}
      /\ rejected = NoRejection
      /\ pc = [r \in Reqs |-> "idle"]
      /\ loc = [r \in Reqs |-> NoLoc]
      /\ hist = [r \in Reqs |-> NoHist]
      /\ resp = [r \in Reqs |-> NoResp]
      /\ sessions = {jwtSign(1, a, t)}
      /\ failures = {}
      /\ FrontendIdle

\* The wallet link that the first login of wallet 1 inserts.
FirstLink == [user_id |-> 1, wallet_address |-> getAddress(Written(1)),
              is_primary |-> TRUE]

\* The state after wallet 1 has logged in once: its nonce is used, its
\* identity, profile and wallet link exist, and it holds a token.
InitSession == AfterLogin(0, {FirstLink})

SpecSession == InitSession /\ [][Next]_vars

\* The same state seven days less one period after that login: the token
\* is valid now and expires in the next period.
InitOldSession == AfterLogin(1 - TokenTTL, {FirstLink})

SpecOldSession == InitOldSession /\ [][Next]_vars

\* Variant: the handler answers with the challenge although the insert
\* failed
NonceInsertFails_stillAnswers ==
  /\ Ready
  /\ \E wa \in RawAddrs :
       /\ isAddress(wa)
       /\ generateNonce <= MaxNonces
       /\ issued' = issued \cup
              {[nonce |-> generateNonce,
                message |-> ChallengeMessage(generateNonce, now),
                expiresAt |-> now + NonceTTL, walletAddress |-> wa]}
       /\ UNCHANGED <<now, store, rejected, sessions, pc, loc, hist, resp,
                      failures, frontend>>

\* Store calls that fail for a reason outside the handler (the store is
\* unreachable, the statement is refused).
\* The nonce insert fails: if (error) return res.status(500)...
NonceInsertFails ==
  /\ Ready
  /\ \E wa \in RawAddrs :
       /\ isAddress(wa)
       /\ Reject("nonce", NonceArrival(wa), 500, "Failed to generate nonce")

\* The wallet insert of a first login fails: the error is logged and the
\* handler goes on to sign the token.
VerifyWalletFails(r) ==
  /\ Ready
  /\ pc[r] = "v_wallet"
  /\ Succeed(r, loc[r].userId, loc[r].isNewUser)
  /\ UNCHANGED <<now, store, issued, rejected>>

NextFaults ==
  \/ Next
  \/ NonceInsertFails
  \/ \E r \in Reqs : VerifyWalletFails(r)

SpecFaults == Init /\ [][NextFaults]_vars

\* The update that marks the nonce used fails: its result is not read, and
\* the handler goes on.
VerifyUpdateFails(r) ==
  /\ Ready
  /\ pc[r] = "v_update"
  /\ pc' = [pc EXCEPT ![r] = "v_lookup"]
  /\ UNCHANGED <<now, store, issued, rejected, sessions, loc, hist, resp,
                 failures, frontend>>

NextUpdateFaults ==
  \/ Next
  \/ \E r \in Reqs : VerifyUpdateFails(r)

SpecUpdateFaults == InitSession /\ [][NextUpdateFaults]_vars

\* A store call of a handler throws instead of returning: the catch block
\* of the handler logs the error and answers 500 'Internal server error'.
HandlerThrows(r) ==
  /\ Ready
  /\ pc[r] \notin {"idle", "done"}
  /\ Fail(r, 500, "Internal server error")
  /\ UNCHANGED <<now, store, issued, rejected>>

\* The store call that the handler of request r awaits comes back, with
\* its result, with an error or with an exception, and the handler runs to
\* its next await or to its response.
Step(r) ==
  \/ VerifyUpdate(r) \/ VerifyUpdateFails(r)
  \/ VerifyLookup(r)
  \/ VerifySignUp(r)
  \/ VerifyWallet(r) \/ VerifyWalletFails(r)
  \/ LinkCount(r)
  \/ LinkInsert(r)
  \/ LinkCommit(r)
  \/ HandlerThrows(r)

NextAllFaults ==
  \/ NextFaults
  \/ \E r \in Reqs : VerifyUpdateFails(r)
  \/ \E r \in Reqs : HandlerThrows(r)

\* Every store call comes back: the handlers wait for nothing else.
SpecResponses ==
  /\ InitSession
  /\ [][NextAllFaults]_vars
  /\ \A r \in Reqs : WF_vars(Step(r))

\* Variant: the cleanup deletes every row
CleanupMatches_all(row, t) == TRUE

\* WHERE expires_at < now() - interval '1 hour'
CleanupMatches(row, t) == row.expires_at < t - SweepAge

\* cleanup_expired_nonces(), run periodically: DELETE FROM auth_nonces
cleanup_expired_nonces ==
  /\ \E i \in DOMAIN auth_nonces :
        ~auth_nonces[i].deleted /\ CleanupMatches(auth_nonces[i], now)
  /\ auth_nonces' =
        [i \in DOMAIN auth_nonces |->
           IF CleanupMatches(auth_nonces[i], now)
           THEN [auth_nonces[i] EXCEPT !.deleted = TRUE]
           ELSE auth_nonces[i]]
  /\ UNCHANGED <<now, wallet_addresses, profiles, auth_users, nextUser,
                 issued, rejected, sessions, pc, loc, hist, resp, failures, frontend>>

NextSweep ==
  \/ Next
  \/ cleanup_expired_nonces

\* The store one hour less one period after wallet 1 let a challenge
\* expire without answering it: the cleanup takes its row two periods on.
InitStale ==
  LET a == getAddress(Written(1))
      t == 1 - NonceTTL - SweepAge
  IN  /\ now = 0
      /\ auth_nonces = <<[wallet_address |-> a, nonce |-> 1,
                          expires_at |-> t + NonceTTL, used |-> FALSE,
                          deleted |-> FALSE]>>
      /\ wallet_addresses = {}
      /\ profiles = {}
      /\ auth_users = {}
      /\ nextUser = 1
      /\ issued = {[nonce |-> 1, message |-> ChallengeMessage(1, t),
                    expiresAt |-> t + NonceTTL, walletAddress |-> Written(1)]}
      /\ rejected = NoRejection
      /\ pc = [r \in Reqs |-> "idle"]
      /\ loc = [r \in Reqs |-> NoLoc]
      /\ hist = [r \in Reqs |-> NoHist]
      /\ resp = [r \in Reqs |-> NoResp]
      /\ sessions = {}
      /\ failures = {}
      /\ FrontendIdle

SpecSweep == InitStale /\ [][NextSweep]_vars

\* The state after a first login of wallet 1 whose wallet insert failed:
\* the identity holds a token and owns no wallet link.
InitUnlinked == AfterLogin(0, {})

SpecUnlinked == InitUnlinked /\ [][Next]_vars

\* The state after the first logins of wallet 1 and of wallet 2, where the
\* wallet insert of the second failed and was only logged: two identities
\* with a profile and a token each, identity 1 owns the link of address 1
\* and address 2 has no link.
InitTwoSessions ==
  LET a1 == getAddress(Written(1))
      a2 == getAddress(Written(2))
      u1 == [id |-> 1, email |-> tempEmail(a1)]
      u2 == [id |-> 2, email |-> tempEmail(a2)]
  IN  /\ now = 0
      /\ auth_nonces = <<[wallet_address |-> a1, nonce |-> 1,
                          expires_at |-> NonceTTL, used |-> TRUE,
                          deleted |-> FALSE],
                         [wallet_address |-> a2, nonce |-> 2,
                          expires_at |-> NonceTTL, used |-> TRUE,
                          deleted |-> FALSE]>>
      /\ wallet_addresses = {FirstLink}
      /\ profiles = {u1, u2}
      /\ auth_users = {u1, u2}
      /\ nextUser = 3
      /\ issued = {[nonce |-> 1, message |-> ChallengeMessage(1, 0),
                    expiresAt |-> NonceTTL, walletAddress |-> Written(1)],
                   [nonce |-> 2, message |-> ChallengeMessage(2, 0),
                    expiresAt |-> NonceTTL, walletAddress |-> Written(2)]}
      /\ rejected = NoRejection
      /\ pc = [r \in Reqs |-> "idle"]
      /\ loc = [r \in Reqs |-> NoLoc]
      /\ hist = [r \in Reqs |-> NoHist]
      /\ resp = [r \in Reqs |-> NoResp]
      /\ sessions = {jwtSign(1, a1, 0), jwtSign(2, a2, 0)}
      /\ failures = {}
      /\ FrontendIdle

\* The two identities send link-wallet requests only.
NextLink ==
  \/ Tick
  \/ LinkBegin
  \/ \E r \in Reqs : LinkCount(r)
  \/ \E r \in Reqs : LinkInsert(r)
  \/ \E r \in Reqs : LinkCommit(r)
  \/ Dismiss

SpecTwoSessions == InitTwoSessions /\ [][NextLink]_vars

\* ----------------------------------------------------------- js/matching.js
NumUsers == 2       \* users with a profile
MaxCalls == 3       \* sendLike calls in one behaviour

Users   == 1..NumUsers
CallIds == 1..MaxCalls

\* A text: its letters without regard to case (v), and whether it is
\* written with capitals.  Empty is ''.  Numbers are integers, and 0 stands
\* for both 0 and null, which the code does not tell apart.
Text(v, caps) == [k |-> "str", v |-> v, caps |-> caps]
Empty == [k |-> "str", v |-> "", caps |-> FALSE]
TextToLowerCase(s) == [s EXCEPT !.caps = FALSE]

\* x && ... on a text, an object or null
Truthy(x) == x # Null /\ x # Empty

Array(items) == [k |-> "array", items |-> items]
Date(y, m, d) == [k |-> "date", y |-> y, m |-> m, d |-> d]
Prefs(lo, hi) == [k |-> "prefs", min_age |-> lo, max_age |-> hi]

\* The columns of a profiles row that calculateCompatibility reads.
Profile(religion, education, place, interests, diet, prefs, dob) ==
  [religion |-> religion, education |-> education,
   city |-> place[1], state |-> place[2], interests |-> interests,
   dietary_preferences |-> diet, partner_preferences |-> prefs,
   date_of_birth |-> dob]

\* new Date(): the day on which the scores are computed
Today == Date(2026, 11, 2)

\* calculateAge(dateOfBirth)
calculateAge(dateOfBirth, today) ==
  LET age       == today.y - dateOfBirth.y
      monthDiff == today.m - dateOfBirth.m
  IN  IF monthDiff < 0 \/ (monthDiff = 0 /\ today.d < dateOfBirth.d)
      THEN age - 1 ELSE age

educationLevels ==
  <<Text("high-school", FALSE), Text("diploma", FALSE),
    Text("bachelors", FALSE), Text("masters", FALSE), Text("phd", FALSE),
    Text("professional", FALSE)>>

\* Array.prototype.indexOf, counted from 0; -1 when absent
indexOf(arr, x) ==
  IF \E i \in DOMAIN arr : arr[i] = x
  THEN (CHOOSE i \in DOMAIN arr :
          arr[i] = x /\ \A j \in DOMAIN arr : arr[j] = x => i <= j) - 1
  ELSE -1

Max(a, b) == IF a >= b THEN a ELSE b
Min(a, b) == IF a <= b THEN a ELSE b
Abs(a)    == IF a >= 0 THEN a ELSE -a

\* Each factor gives the points earned and the points that were possible.
Points(score, maxScore) == [score |-> score, maxScore |-> maxScore]
NotCounted == Points(0, 0)

ReligionPoints(profile1, profile2) ==
  IF Truthy(profile1.religion) /\ Truthy(profile2.religion)
  THEN Points(IF profile1.religion = profile2.religion THEN 20 ELSE 0, 20)
  ELSE NotCounted

EducationPoints(profile1, profile2) ==
  IF Truthy(profile1.education) /\ Truthy(profile2.education)
  THEN LET edu1Index == indexOf(educationLevels, profile1.education)
           edu2Index == indexOf(educationLevels, profile2.education)
       IN  IF edu1Index # -1 /\ edu2Index # -1
           THEN Points(Max(0, 15 - Abs(edu1Index - edu2Index) * 3), 15)
           ELSE Points(0, 15)
  ELSE NotCounted

LocationPoints(profile1, profile2) ==
  IF Truthy(profile1.city) /\ Truthy(profile2.city)
  THEN IF TextToLowerCase(profile1.city) = TextToLowerCase(profile2.city)
       THEN Points(15, 15)
       ELSE IF /\ Truthy(profile1.state) /\ Truthy(profile2.state)
               /\ TextToLowerCase(profile1.state)
                    = TextToLowerCase(profile2.state)
       THEN Points(7, 15)
       ELSE Points(0, 15)
  ELSE NotCounted

\* Variant: the interest points without Math.min
CommonInterestPoints_uncapped(n) == n * 4

\* Math.min(20, commonInterests.length * 4)
CommonInterestPoints(n) == Min(20, n * 4)

\* profile1.interests.filter(interest => profile2.interests.includes(..))
commonInterests(a, b) ==
  {i \in DOMAIN a.items : \E j \in DOMAIN b.items : b.items[j] = a.items[i]}

InterestPoints(profile1, profile2) ==
  IF /\ Truthy(profile1.interests) /\ Truthy(profile2.interests)
     /\ profile1.interests.k = "array" /\ profile2.interests.k = "array"
  THEN Points(CommonInterestPoints(
                Cardinality(commonInterests(profile1.interests,
                                            profile2.interests))), 20)
  ELSE NotCounted

DietPoints(profile1, profile2) ==
  IF /\ Truthy(profile1.dietary_preferences)
     /\ Truthy(profile2.dietary_preferences)
  THEN Points(IF profile1.dietary_preferences = profile2.dietary_preferences
              THEN 10 ELSE 0, 10)
  ELSE NotCounted

AgePoints(profile1, profile2, today) ==
  IF Truthy(profile1.partner_preferences)
  THEN LET prefs == profile1.partner_preferences
       IN  IF /\ prefs.min_age # 0 /\ prefs.max_age # 0
              /\ Truthy(profile2.date_of_birth)
           THEN LET age == calculateAge(profile2.date_of_birth, today)
                IN  Points(IF age >= prefs.min_age /\ age <= prefs.max_age
                           THEN 20 ELSE 0, 20)
           ELSE NotCounted
  ELSE NotCounted

\* score and maxScore at the end of calculateCompatibility
Tally(profile1, profile2, today) ==
  LET f == <<ReligionPoints(profile1, profile2),
             EducationPoints(profile1, profile2),
             LocationPoints(profile1, profile2),
             InterestPoints(profile1, profile2),
             DietPoints(profile1, profile2),
             AgePoints(profile1, profile2, today)>>
  IN  Points(f[1].score + f[2].score + f[3].score + f[4].score
               + f[5].score + f[6].score,
             f[1].maxScore + f[2].maxScore + f[3].maxScore + f[4].maxScore
               + f[5].maxScore + f[6].maxScore)

\* Math.round(x) for x = num / den >= 0: halves go up
MathRound(num, den) == (2 * num + den) \div (2 * den)

\* calculateCompatibility(profile1, profile2), with the day it reads
calculateCompatibility(profile1, profile2, today) ==
  LET t == Tally(profile1, profile2, today)
  IN  IF t.maxScore > 0 THEN MathRound(t.score * 100, t.maxScore) ELSE 50

\* --- the profiles that are scored
\* myProfile of findMatches, and the profiles it is compared with
Profiles1 ==
  {Profile(r, e, p, i, d, a, Null) :
     r \in {Null, Text("hindu", TRUE)},
     e \in {Null, Text("high-school", FALSE), Text("other", FALSE)},
     p \in {<<Null, Null>>, <<Text("pune", TRUE), Text("mh", TRUE)>>},
     i \in {Null, Array(<<1, 2, 3, 4, 5, 6, 6>>)},
     d \in {Null, Text("veg", FALSE)},
     a \in {Null, Prefs(0, 30), Prefs(21, 30)}}
Profiles2 ==
  {Profile(r, e, p, i, d, Null, b) :
     r \in {Empty, Text("hindu", TRUE), Text("sikh", TRUE)},
     e \in {Null, Text("diploma", FALSE), Text("professional", FALSE)},
     p \in {<<Null, Null>>, <<Text("pune", FALSE), Text("mh", FALSE)>>,
            <<Text("mumbai", TRUE), Text("mh", TRUE)>>,
            <<Text("delhi", TRUE), Null>>},
     i \in {Null, Array(<<>>), Array(<<6, 5, 4, 3, 2, 1>>)},
     d \in {Text("veg", FALSE), Text("nonveg", FALSE)},
     b \in {Null, Date(2005, 12, 31), Date(1996, 11, 2)}}

NoScores == [me |-> 0, data |-> << >>]

\* matchesWithScores.sort((a, b) => b.compatibility_score - a....): the
\* rows in descending order of score
RECURSIVE SortByScore(_)
SortByScore(rows) ==
  IF rows = {} THEN << >>
  ELSE LET top == CHOOSE x \in rows :
                    \A y \in rows :
                      y.compatibility_score <= x.compatibility_score
       IN  <<top>> \o SortByScore(rows \ {top})

\* findMatches(limit) by user `me`.  The query's filters (gender,
\* preferred location and religion, limit) are not followed: it returns
\* any of the other profiles.
findMatches ==
  \E me \in Users : \E potentialMatches \in SUBSET (Users \ {me}) :
    /\ scores' =
         [me |-> me,
          data |-> SortByScore(
            {[id |-> u,
              compatibility_score |->
                calculateCompatibility(people[me], people[u], Today)] :
               u \in potentialMatches})]
    /\ scores' # scores
    /\ UNCHANGED <<backend, people, likes, matches, calls, web3>>

InitScoring ==
  /\ ServerStart
  /\ \E p1 \in Profiles1, p2 \in Profiles2 :
       people = [u \in Users |-> IF u = 1 THEN p1 ELSE p2]
  /\ likes = {} /\ matches = {} /\ calls = << >>
  /\ scores = NoScores
  /\ web3 = [kind |-> "none"]

SpecScoring == InitScoring /\ [][findMatches]_vars

\* --- sendLike and createMatch.  The browser's supabase client acts as the
\* signed-in user, whose requests satisfy the row-level policies on likes
\* and matches: it reads the likes it sent or received and the matches it
\* takes part in, and inserts rows in its own name.
NoUser     == 0                 \* getCurrentUser(): nobody is signed in
NoSuchUser == NumUsers + 1      \* a toUserId without a profile

NoCall == [pc |-> "idle", me |-> 0, toUserId |-> 0, message |-> "",
           error |-> ""]

\* Calls are numbered in the order in which they start.
Starts(c) == calls[c].pc = "idle"
             /\ \A d \in CallIds : d < c => calls[d].pc # "idle"

\* return { data, error, message }
Return(c, message, error) ==
  calls' = [calls EXCEPT ![c].pc = "done", ![c].message = message,
                         ![c].error = error]

LikeRow(from, to) == [from_user_id |-> from, to_user_id |-> to]

\* .from('likes').select('id').eq('from_user_id', a).eq('to_user_id', b)
SelectLike(a, b) == {l \in likes : l.from_user_id = a /\ l.to_user_id = b}

\* sendLike(toUserId): getCurrentUser() and the select of an existing like
SendLikeBegin(c) ==
  /\ Starts(c)
  /\ \E me \in Users \cup {NoUser}, toUserId \in Users \cup {NoSuchUser} :
       LET call == [NoCall EXCEPT !.me = me, !.toUserId = toUserId]
       IN  IF me = NoUser
           THEN calls' = [calls EXCEPT ![c] =
                   [call EXCEPT !.pc = "done", !.error = "No user logged in"]]
           ELSE IF Cardinality(SelectLike(me, toUserId)) = 1
           THEN calls' = [calls EXCEPT ![c] =
                   [call EXCEPT !.pc = "done", !.message = "Already liked"]]
           ELSE calls' = [calls EXCEPT ![c] = [call EXCEPT !.pc = "s_insert"]]
  /\ UNCHANGED <<backend, people, likes, matches, scores, web3>>

\* likes: UNIQUE(from_user_id, to_user_id), to_user_id REFERENCES profiles
LikeInsertError(row) == row \in likes \/ row.to_user_id \notin Users

\* .from('likes').insert([...]); if (error) throw error
SendLikeInsert(c) ==
  /\ calls[c].pc = "s_insert"
  /\ LET row == LikeRow(calls[c].me, calls[c].toUserId)
     IN  IF LikeInsertError(row)
         THEN Return(c, "", "insert failed") /\ UNCHANGED likes
         ELSE /\ likes' = likes \cup {row}
              /\ calls' = [calls EXCEPT ![c].pc = "s_reciprocal"]
  /\ UNCHANGED <<backend, people, matches, scores, web3>>

\* Variant: the reciprocal like is never found
SelectReciprocal_none(me, toUserId) == {}

\* .from('likes').select('id').eq('from_user_id', toUserId)
\*    .eq('to_user_id', user.id).maybeSingle()
SelectReciprocal(me, toUserId) == SelectLike(toUserId, me)

SendLikeReciprocal(c) ==
  /\ calls[c].pc = "s_reciprocal"
  /\ IF Cardinality(SelectReciprocal(calls[c].me, calls[c].toUserId)) = 1
     THEN calls' = [calls EXCEPT ![c].pc = "m_existing"]
     ELSE Return(c, "Like sent", "")
  /\ UNCHANGED <<backend, people, likes, matches, scores, web3>>

\* .from('matches').select('id').or(and(user_id.eq.userId1,
\*    matched_user_id.eq.userId2),and(user_id.eq.userId2,...eq.userId1))
SelectMatch(userId1, userId2) ==
  {m \in matches :
     \/ m.user_id = userId1 /\ m.matched_user_id = userId2
     \/ m.user_id = userId2 /\ m.matched_user_id = userId1}

\* createMatch(user.id, toUserId): the select of an existing match;
\* maybeSingle() gives no row when it finds none or more than one
CreateMatchSelect(c) ==
  /\ calls[c].pc = "m_existing"
  /\ IF Cardinality(SelectMatch(calls[c].me, calls[c].toUserId)) = 1
     THEN Return(c, "It's a match!", "")
     ELSE calls' = [calls EXCEPT ![c].pc = "m_insert"]
  /\ UNCHANGED <<backend, people, likes, matches, scores, web3>>

MatchRow(userId1, userId2) ==
  [user_id |-> userId1, matched_user_id |-> userId2, status |-> "accepted",
   compatibility_score |-> 85]

\* matches: UNIQUE(user_id, matched_user_id)
MatchInsertError(row) ==
  \E m \in matches : /\ m.user_id = row.user_id
                     /\ m.matched_user_id = row.matched_user_id

\* .from('matches').insert([...]): createMatch catches the error, and
\* sendLike answers "It's a match!" either way
CreateMatchInsert(c) ==
  /\ calls[c].pc = "m_insert"
  /\ LET row == MatchRow(calls[c].me, calls[c].toUserId)
     IN  matches' = IF MatchInsertError(row) THEN matches
                                             ELSE matches \cup {row}
  /\ Return(c, "It's a match!", "")
  /\ UNCHANGED <<backend, people, likes, scores, web3>>

\* getMyMatches() of the signed-in user `me`:
\* .from('matches').select(...).eq('user_id', user.id).eq('status', 'accepted')
getMyMatches(me) ==
  {m \in matches : m.user_id = me /\ m.status = "accepted"}

\* getProfileStats() of the signed-in user `me`: the two counts
\* .or(user_id.eq.me,matched_user_id.eq.me).eq('status', 'accepted') on
\* matches and .eq('to_user_id', me) on likes
getProfileStats(me) ==
  [matches |-> Cardinality({m \in matches :
                              /\ m.user_id = me \/ m.matched_user_id = me
                              /\ m.status = "accepted"}),
   likes   |-> Cardinality({l \in likes : l.to_user_id = me})]

NextLikes ==
  \/ \E c \in CallIds : SendLikeBegin(c)
  \/ \E c \in CallIds : SendLikeInsert(c)
  \/ \E c \in CallIds : SendLikeReciprocal(c)
  \/ \E c \in CallIds : CreateMatchSelect(c)
  \/ \E c \in CallIds : CreateMatchInsert(c)

\* The profiles of the users who send likes.
LikeProfiles ==
  {Profile(Text("hindu", TRUE), Text("diploma", FALSE),
           <<Text("pune", TRUE), Text("mh", TRUE)>>, Array(<<1, 2, 3>>),
           Text("veg", FALSE), prefs, Date(1996, 11, 2)) :
     prefs \in {Null, Prefs(21, 30)}}

InitLikes ==
  /\ ServerStart
  /\ people \in [Users -> LikeProfiles]
  /\ likes = {} /\ matches = {}
  /\ calls = [c \in CallIds |-> NoCall]
  /\ scores = NoScores
  /\ web3 = [kind |-> "none"]

SpecLikes == InitLikes /\ [][NextLikes]_vars

\* ----------------------------------------------- Web3AuthManager (web3-auth)
MaxAuths == 2       \* authenticateWithWallet calls in one behaviour

AuthIds == 1..MaxAuths

NoAuth == [pc |-> "idle", address |-> Null, message |-> Null,
           signature |-> Null, result |-> Null, error |-> ""]

\* What the backend answers to verifySignature with success.
VerifyResult(address, userId) ==
  [k |-> "result", success |-> TRUE,
   token |-> jwtSign(userId, address, 0), walletAddress |-> address,
   userId |-> userId]

\* constructor(), and localStorage as the page finds it: `stored` is the
\* result an earlier visit has left there, or Null.
Web3Start(stored) ==
  [kind |-> "web3", op |-> "constructor",
   provider |-> FALSE, signer |-> 0, walletAddress |-> Null,
   listening |-> FALSE,
   web3_auth_token    |-> IF stored = Null THEN Null ELSE stored.token,
   web3_wallet_address |-> IF stored = Null THEN Null
                                            ELSE stored.walletAddress,
   web3_user_id       |-> IF stored = Null THEN Null ELSE stored.userId,
   auths |-> [a \in AuthIds |-> NoAuth]]

\* isAuthenticated(), getWalletAddress(), getUserId()
isAuthenticated  == web3.web3_auth_token # Null
getWalletAddress == web3.web3_wallet_address
getUserId        == web3.web3_user_id

\* Variant: the catch block calls disconnect() before it rethrows
Throw_disconnects(a, op, error) ==
  web3' = [web3 EXCEPT !.op = op, !.auths[a].pc = "thrown",
                       !.auths[a].error = error,
                       !.provider = FALSE, !.signer = 0,
                       !.walletAddress = Null,
                       !.web3_auth_token = Null,
                       !.web3_wallet_address = Null,
                       !.web3_user_id = Null]

\* A call throws: the error goes to the caller, nothing else changes.
Throw(a, op, error) ==
  web3' = [web3 EXCEPT !.op = op, !.auths[a].pc = "thrown",
                       !.auths[a].error = error]

AuthStarts(a) == web3.auths[a].pc = "idle"
                 /\ \A b \in AuthIds : b < a => web3.auths[b].pc # "idle"

\* authenticateWithWallet -> connectWallet: detectProvider(),
\* new BrowserProvider, ethereum.request({ method: 'eth_requestAccounts' })
AuthBegin(a) ==
  /\ AuthStarts(a)
  /\ \/ Throw(a, "connect", "MetaMask or compatible wallet not detected")
     \/ web3' = [web3 EXCEPT !.op = "connect", !.provider = TRUE,
                             !.auths[a].pc = "w_accounts"]
  /\ UNCHANGED <<backend, people, likes, matches, calls, scores>>

\* the accounts arrive: this.walletAddress = ethers.getAddress(accounts[0]),
\* then provider.getSigner()
AuthAccounts(a) ==
  /\ web3.auths[a].pc = "w_accounts"
  /\ \/ Throw(a, "accounts", "No accounts found")
     \/ \E acc \in AddrIds :
          web3' = [web3 EXCEPT !.op = "accounts",
                               !.walletAddress = getAddress(Written(acc)),
                               !.auths[a].pc = "w_signer"]
  /\ UNCHANGED <<backend, people, likes, matches, calls, scores>>

\* the signer arrives: this.signer, the listeners are registered,
\* connectWallet returns { address: this.walletAddress }, and
\* requestNonce(address) sends its request
AuthSigner(a) ==
  /\ web3.auths[a].pc = "w_signer"
  /\ \/ Throw(a, "signer", "getSigner failed")
     \/ \E acc \in AddrIds :
          web3' = [web3 EXCEPT !.op = "signer", !.signer = acc,
                               !.listening = TRUE,
                               !.auths[a].address = web3.walletAddress,
                               !.auths[a].pc = "w_nonce"]
  /\ UNCHANGED <<backend, people, likes, matches, calls, scores>>

\* the nonce response arrives; signMessage(message) asks the signer
AuthNonce(a) ==
  /\ web3.auths[a].pc = "w_nonce"
  /\ \/ Throw(a, "nonce", "Failed to get nonce")
     \/ IF web3.signer = 0
        THEN Throw(a, "nonce", "Wallet not connected")
        ELSE web3' = [web3 EXCEPT !.op = "nonce",
                                  !.auths[a].message = ChallengeMessage(1, 0),
                                  !.auths[a].pc = "w_sign"]
  /\ UNCHANGED <<backend, people, likes, matches, calls, scores>>

\* the signature arrives (or the user refuses); verifySignature sends it
AuthSign(a) ==
  /\ web3.auths[a].pc = "w_sign"
  /\ \/ Throw(a, "sign", "user rejected signing")
     \/ \E acc \in AddrIds :
          web3' = [web3 EXCEPT !.op = "sign",
                               !.auths[a].signature =
                                  Sign(acc, web3.auths[a].message),
                               !.auths[a].pc = "w_verify"]
  /\ UNCHANGED <<backend, people, likes, matches, calls, scores>>

\* the verify response arrives: if (result.success && result.token) the
\* three localStorage.setItem calls, then syncWithSupabase
AuthVerify(a) ==
  /\ web3.auths[a].pc = "w_verify"
  /\ \/ Throw(a, "verify", "Verification failed")
     \/ /\ web3.auths[a].address # Null
        /\ \E userId \in Users :
             LET result == VerifyResult(web3.auths[a].address, userId)
             IN  web3' = [web3 EXCEPT
                    !.op = "verified",
                    !.web3_auth_token = result.token,
                    !.web3_wallet_address = result.walletAddress,
                    !.web3_user_id = result.userId,
                    !.auths[a].result = result,
                    !.auths[a].pc = "w_sync"]
  /\ UNCHANGED <<backend, people, likes, matches, calls, scores>>

\* syncWithSupabase has ended (its errors are logged): return result
AuthSync(a) ==
  /\ web3.auths[a].pc = "w_sync"
  /\ web3' = [web3 EXCEPT !.op = "sync", !.auths[a].pc = "done"]
  /\ UNCHANGED <<backend, people, likes, matches, calls, scores>>

\* Variant: disconnect() leaves the token in localStorage
disconnect_keepsToken ==
  /\ web3' = [web3 EXCEPT !.op = "disconnect", !.provider = FALSE,
                          !.signer = 0, !.walletAddress = Null,
                          !.web3_wallet_address = Null,
                          !.web3_user_id = Null]
  /\ UNCHANGED <<backend, people, likes, matches, calls, scores>>

\* disconnect(), called by the page or by the accountsChanged listener
\* with no account
disconnect ==
  /\ web3' = [web3 EXCEPT !.op = "disconnect", !.provider = FALSE,
                          !.signer = 0, !.walletAddress = Null,
                          !.web3_auth_token = Null,
                          !.web3_wallet_address = Null,
                          !.web3_user_id = Null]
  /\ UNCHANGED <<backend, people, likes, matches, calls, scores>>

\* accountsChanged with an account: this.walletAddress is set and
\* window.location.reload() ends the calls in progress; the new page
\* constructs a new manager and finds localStorage as it was
accountsChanged ==
  /\ web3.listening
  /\ web3' = [web3 EXCEPT
        !.op = "reload", !.provider = FALSE, !.signer = 0,
        !.walletAddress = Null, !.listening = FALSE,
        !.auths = [a \in AuthIds |->
                     IF web3.auths[a].pc \in {"idle", "done", "thrown"}
                     THEN web3.auths[a]
                     ELSE [web3.auths[a] EXCEPT !.pc = "gone"]]]
  /\ UNCHANGED <<backend, people, likes, matches, calls, scores>>

NextWeb3 ==
  \/ \E a \in AuthIds : AuthBegin(a)
  \/ \E a \in AuthIds : AuthAccounts(a)
  \/ \E a \in AuthIds : AuthSigner(a)
  \/ \E a \in AuthIds : AuthNonce(a)
  \/ \E a \in AuthIds : AuthSign(a)
  \/ \E a \in AuthIds : AuthVerify(a)
  \/ \E a \in AuthIds : AuthSync(a)
  \/ disconnect
  \/ accountsChanged

InitWeb3 ==
  /\ ServerStart
  /\ people = << >> /\ likes = {} /\ matches = {} /\ calls = << >>
  /\ scores = {}
  /\ \E stored \in {Null, VerifyResult(getAddress(Written(1)), 1)} :
       web3 = Web3Start(stored)

SpecWeb3 == InitWeb3 /\ [][NextWeb3]_vars

\* ---------------------------------------------------------------- claims
\* Request r is a verify request whose handler went past the checks.
IsVerify(r) == hist[r].endpoint = "verify"

\* Request r was answered with success: true and a token.
VerifyOk(r) == resp[r].endpoint = "verify" /\ resp[r].status = 200

\* Request r was answered, with success or with an error.
VerifyDone(r) == IsVerify(r) /\ pc[r] = "done"

\* A verify request was just refused on arrival, and it named a nonce.
Refused == rejected.endpoint = "verify" /\ rejected.arrival.wellFormed

\* C1: of the verify requests that present the same nonce, the same address
\* and a valid signature, however their store calls interleave, at most one
\* is answered with a token.
C1_OneSuccessPerNonce ==
  \A r, q \in Reqs :
    (r # q /\ VerifyOk(r) /\ VerifyOk(q)) => hist[r].nonce # hist[q].nonce

\* C2: once a verify request presenting a nonce has been answered with a
\* token, no verify request that arrives later with that nonce goes past
\* the checks: it is answered 401 without a token.
C2_ReplayRejected ==
  [][ /\ \A r \in Reqs :
           (pc[r] = "idle" /\ pc'[r] = "v_update")
             => ~\E q \in Reqs : VerifyOk(q) /\ hist[q].nonce = hist'[r].nonce
      /\ (/\ rejected'.endpoint = "verify"
          /\ rejected'.arrival.wellFormed
          /\ \E q \in Reqs : VerifyOk(q)
                              /\ hist[q].nonce = rejected'.arrival.nonce)
           => rejected'.status = 401 /\ rejected'.token = NoToken ]_vars

\* A replay with a valid signature of a nonce that has logged in once was
\* refused with 401.
C2_Witness ==
  /\ Refused
  /\ rejected.arrival.validSig
  /\ rejected.status = 401
  /\ \E q \in Reqs : /\ VerifyOk(q)
                     /\ hist[q].nonce = rejected.arrival.nonce
                     /\ hist[q].address = rejected.arrival.address

\* C3: a verify request whose nonce has an expires_at earlier than the time
\* of the request never goes past the checks; it is answered 401 without a
\* token, also when the nonce is unused and the signature valid; and
\* "Nonce has expired" is answered only to such requests.
C3_ExpiredRejected ==
  /\ \A r \in Reqs : IsVerify(r) => ~hist[r].passed
  /\ Refused =>
       /\ rejected.arrival.passed
            => rejected.status = 401 /\ rejected.token = NoToken
       /\ rejected.error = "Nonce has expired" => rejected.arrival.passed

\* An unused nonce of the claimed address, validly signed, was refused
\* because its time had passed.
C3_Witness ==
  /\ Refused
  /\ rejected.arrival.passed
  /\ rejected.arrival.unused
  /\ rejected.arrival.stored
  /\ rejected.arrival.validSig
  /\ rejected.status = 401
  /\ rejected.error = "Nonce has expired"

\* C4: all answered verify requests for the same wallet address, each with
\* its own nonce, are answered with success and carry the same userId.
C4_OneIdentity ==
  \A r, q \in Reqs :
    (/\ VerifyDone(r) /\ VerifyDone(q)
     /\ hist[r].address = hist[q].address
     /\ hist[r].nonce # hist[q].nonce)
      => /\ VerifyOk(r) /\ VerifyOk(q)
         /\ resp[r].userId = resp[q].userId

\* C5: a verify request goes past the checks, and so can be answered with
\* a token, only if on arrival the nonce of its message was stored for the
\* claimed address, unused and not expired, and the signature recovered to
\* the claimed address; every other answer of verify is 4xx/5xx without a
\* token.
C5_TokenOnlyIfValid ==
  /\ \A r \in Reqs :
       IsVerify(r) => /\ hist[r].stored /\ hist[r].unused
                      /\ ~hist[r].passed /\ hist[r].validSig
  /\ \A r \in Reqs :
       resp[r].endpoint = "verify" =>
         /\ resp[r].token # NoToken => resp[r].status = 200 /\ IsVerify(r)
         /\ resp[r].status # 200
              => resp[r].status >= 400 /\ resp[r].token = NoToken
  /\ rejected.endpoint = "verify"
       => rejected.status >= 400 /\ rejected.token = NoToken

\* A token was issued, and a request signed by another key was refused.
C5_Witness ==
  /\ \E r \in Reqs : VerifyOk(r) /\ resp[r].token \in sessions
  /\ Refused
  /\ rejected.arrival.stored /\ rejected.arrival.unused
  /\ ~rejected.arrival.passed /\ ~rejected.arrival.validSig

\* C6: verify answers with a token only when the submitted message is
\* exactly a challenge text that the nonce endpoint issued.
C6_ExactChallenge ==
  \A r \in Reqs : VerifyOk(r) => hist[r].exact

\* C7: a verify request whose nonce is not stored for the claimed address
\* (it was issued for another address, or never stored) does not go past
\* the checks; it is answered 401 'Invalid or expired nonce' and the
\* auth_nonces table is left as it was.
C7_NonceBoundToAddress ==
  [][ /\ \A r \in Reqs : IsVerify(r)' => hist'[r].stored
      /\ (/\ rejected' # rejected
          /\ rejected'.endpoint = "verify"
          /\ rejected'.arrival.wellFormed
          /\ ~rejected'.arrival.stored)
           => /\ rejected'.status = 401
              /\ rejected'.error = "Invalid or expired nonce"
              /\ auth_nonces' = auth_nonces ]_vars

\* A nonce issued for one address, presented with another claimed address
\* and a signature by that address's key, was refused; its row is unused.
C7_Witness ==
  /\ Refused
  /\ ~rejected.arrival.stored
  /\ rejected.arrival.validSig
  /\ rejected.error = "Invalid or expired nonce"
  /\ \E i \in RowsOf(rejected.arrival.nonce) :
       /\ auth_nonces[i].wallet_address # rejected.arrival.address
       /\ ~auth_nonces[i].used
       /\ ~NonceExpired(auth_nonces[i], now)

\* C8: every wallet address has at most one row in wallet_addresses.
C8_OneLinkPerAddress ==
  \A v, w \in wallet_addresses :
    v.wallet_address = w.wallet_address => v = w

\* A link-wallet request and a first login raced for the same address: the
\* login's row is stored and the link request was answered with an error.
C8_Witness ==
  \E r, q \in Reqs :
    /\ resp[r].endpoint = "link" /\ resp[r].status = 500
    /\ VerifyOk(q) /\ resp[q].isNewUser
    /\ loc[r].checksummedAddress = loc[q].checksummedAddress
    /\ \E w \in wallet_addresses :
         /\ w.wallet_address = loc[r].checksummedAddress
         /\ w.user_id = resp[q].userId

\* C9 as stated: a nonce for which a verify attempt failed (signature,
\* address mismatch, expiry) is never accepted afterwards: no request that
\* presents it later is answered with a token.
C9_FailureTerminal ==
  \A r \in Reqs : VerifyOk(r) => hist[r].failed = {}

\* C9 amended: a nonce for which a verify attempt failed because the nonce
\* had expired is never accepted afterwards: every later request that
\* presents it is refused with 401 and no token.
C9_ExpiryTerminal ==
  /\ \A r \in Reqs : IsVerify(r) => "expired" \notin hist[r].failed
  /\ (Refused /\ "expired" \in rejected.arrival.failed)
       => rejected.status = 401 /\ rejected.token = NoToken

\* After an attempt had failed on expiry, a validly signed attempt with the
\* same unused nonce was refused.
C9_Witness ==
  /\ Refused
  /\ "expired" \in rejected.arrival.failed
  /\ rejected.arrival.validSig
  /\ rejected.arrival.stored
  /\ rejected.arrival.unused
  /\ rejected.status = 401

\* C10: verify answers with a token only for the latest nonce issued for
\* the address: a nonce is ignored once a later one exists for its address.
C10_LatestNonceOnly ==
  \A r \in Reqs : VerifyOk(r) => ~hist[r].newer

\* Why the nonce of verify input `in` cannot be consumed: it was never
\* issued, it was issued for the claimed address and already used, or it
\* is unused and its time has passed; "none" in every other case.
NonceCondition(in) ==
  LET h == Arrival(in[1], in[3], in[2])
  IN  IF ~h.wellFormed THEN "none"
      ELSE IF RowsOf(h.nonce) = {} THEN "never issued"
      ELSE IF h.stored /\ ~h.unused /\ ~h.passed THEN "used"
      ELSE IF h.stored /\ h.unused /\ h.passed THEN "expired"
      ELSE "none"

\* The error outcome the caller of verify sees for input `in`.
Outcome(in) ==
  LET c == VerifyChecks(in[1], in[3], in[2]) IN <<c.status, c.error>>

\* C11: two verify requests whose nonces fail for different reasons (never
\* issued, expired, already used) are answered with different error
\* outcomes.
C11_Distinguishable ==
  \A a, b \in VerifyInputs :
    (/\ NonceCondition(a) # "none" /\ NonceCondition(b) # "none"
     /\ NonceCondition(a) # NonceCondition(b))
      => Outcome(a) # Outcome(b)

\* C12: a nonce row is created with used = false, no step removes a row or
\* takes used from true back to false, and once a verify handler has run
\* its update the row of its nonce is used.
C12_UsedMonotonic ==
  [][ /\ Len(auth_nonces') >= Len(auth_nonces)
      /\ \A i \in DOMAIN auth_nonces' :
           IF i \in DOMAIN auth_nonces
           THEN /\ auth_nonces[i].used => auth_nonces'[i].used
                /\ auth_nonces'[i].nonce = auth_nonces[i].nonce
           ELSE ~auth_nonces'[i].used
      /\ \A r \in Reqs :
           (IsVerify(r)' /\ pc'[r] # "v_update")
             => auth_nonces'[loc'[r].nonceId].used ]_vars

\* Two handlers updated the row of the same nonce, one after the other,
\* and the row is used.
C12_Witness ==
  \E r, q \in Reqs :
    /\ r # q /\ IsVerify(r) /\ IsVerify(q)
    /\ loc[r].nonceId = loc[q].nonceId
    /\ pc[r] # "v_update" /\ pc[q] # "v_update"
    /\ auth_nonces[loc[r].nonceId].used

\* C13: of the successful verify requests for one wallet address, each
\* with its own nonce, only one reports isNewUser = true, and all carry
\* the same userId.
C13_NewUserOnce ==
  \A r, q \in Reqs :
    (/\ r # q /\ VerifyOk(r) /\ VerifyOk(q)
     /\ hist[r].address = hist[q].address
     /\ hist[r].nonce # hist[q].nonce)
      => /\ ~(resp[r].isNewUser /\ resp[q].isNewUser)
         /\ resp[r].userId = resp[q].userId

\* Request r is a link-wallet request whose handler went past the checks.
IsLink(r) == hist[r].endpoint = "link"

\* Request r was answered by link-wallet with success.
LinkOk(r) == resp[r].endpoint = "link" /\ resp[r].status = 200

\* A link-wallet request with all its fields was just refused on arrival.
LinkRefused ==
  /\ rejected' # rejected
  /\ rejected'.endpoint = "link"
  /\ rejected'.arrival.present

\* The store of this model contains the state that a first login with a
\* failed wallet insert leaves behind: an identity with a profile and a
\* token and without a wallet link.
UnlinkedIdentity ==
  \E t \in sessions :
    /\ \E p \in profiles : p.id = t.userId
    /\ ~\E w \in wallet_addresses : w.user_id = t.userId

\* C14: the link-wallet handler goes on to create a link only for a
\* request whose token was issued by the server, has not expired, and names
\* the userId of the request; a request with an invalid or expired token is
\* answered 401, one whose token names another user 403, and neither
\* changes wallet_addresses; a row is added to wallet_addresses only by a
\* handler that ends in that step.
C14_LinkAuthorised ==
  [][ /\ \A r \in Reqs :
           IsLink(r)' => hist'[r].tokenValid /\ hist'[r].subjectOk
      /\ LinkRefused =>
           /\ ~rejected'.arrival.tokenValid => rejected'.status = 401
           /\ (rejected'.arrival.tokenValid /\ ~rejected'.arrival.subjectOk)
                => rejected'.status = 403
           /\ wallet_addresses' = wallet_addresses
      /\ wallet_addresses' # wallet_addresses
           => \E r \in Reqs : pc[r] \in {"v_wallet", "l_commit"}
                              /\ pc'[r] = "done" ]_vars

\* A request with the expired token of the identity was refused with 401
\* while a link created with that token before it expired is stored.
C14_Witness ==
  /\ rejected.endpoint = "link" /\ rejected.arrival.present
  /\ rejected.status = 401
  /\ rejected.arrival.subjectOk /\ ~rejected.arrival.tokenValid
  /\ \E r \in Reqs : LinkOk(r) /\ hist[r].userId = rejected.arrival.userId

\* A request whose token names another user was refused with 403.
C14_Witness403 ==
  /\ rejected.endpoint = "link" /\ rejected.arrival.present
  /\ rejected.status = 403
  /\ rejected.arrival.tokenValid /\ ~rejected.arrival.subjectOk

\* C15: an authorised link-wallet request for an address that has a wallet
\* link when the request arrives does not go on to the insert; it is
\* answered 400 'Wallet already linked to another account' and
\* wallet_addresses is left as it was.
C15_AlreadyLinked ==
  [][ /\ \A r \in Reqs : IsLink(r)' => ~hist'[r].linked
      /\ (/\ LinkRefused
          /\ rejected'.arrival.tokenValid /\ rejected'.arrival.subjectOk
          /\ rejected'.arrival.linked)
           => /\ rejected'.status = 400
              /\ rejected'.error = "Wallet already linked to another account"
              /\ wallet_addresses' = wallet_addresses ]_vars

\* The identity asked to link an address that it owns itself and was
\* refused with 400.
C15_Witness ==
  /\ rejected.endpoint = "link" /\ rejected.arrival.present
  /\ rejected.arrival.tokenValid /\ rejected.arrival.subjectOk
  /\ rejected.status = 400
  /\ \E w \in wallet_addresses :
       /\ w.wallet_address = rejected.arrival.address
       /\ w.user_id = rejected.arrival.userId

\* C16: every identity that owns a wallet link owns exactly one link with
\* is_primary = true.
C16_OnePrimary ==
  \A w \in wallet_addresses :
    Cardinality({v \in wallet_addresses :
                   v.user_id = w.user_id /\ v.is_primary}) = 1

C18_SessionToken ==
  [][ /\ \A r \in Reqs :
           (pc[r] # "done" /\ VerifyOk(r)')
             => /\ resp'[r].token =
                     [k |-> "token", userId |-> resp'[r].userId,
                      walletAddress |->
                        [k |-> "addr", id |-> hist[r].address.id,
                         form |-> "checksum"],
                      authMethod |-> "wallet", exp |-> now + TokenTTL]
                /\ auth_nonces' = auth_nonces /\ profiles' = profiles
                /\ auth_users' = auth_users
                /\ pc[r] = "v_lookup" => wallet_addresses' = wallet_addresses
      /\ \A r \in Reqs : IsLink(r)' => hist'[r].tokenValid
      /\ (/\ LinkRefused
          /\ rejected'.arrival.tokenIssued /\ rejected'.arrival.subjectOk)
           => (rejected'.status = 401 <=> ~rejected'.arrival.tokenValid) ]_vars

\* A token was issued in this behaviour, and the token of the earlier
\* login, presented after its expiry with its own userId, was refused 401.
C18_Witness ==
  /\ \E r \in Reqs : VerifyOk(r) /\ resp[r].token \in sessions
  /\ rejected.endpoint = "link" /\ rejected.arrival.present
  /\ rejected.arrival.tokenIssued /\ rejected.arrival.subjectOk
  /\ ~rejected.arrival.tokenValid
  /\ rejected.status = 401

\* C19: a successful nonce request adds exactly one row to auth_nonces and
\* changes no other: the row is keyed by the checksummed form of the
\* requested address, has used = false and expires_at = request time plus
\* five minutes; the nonce and expiresAt returned are those of the row, and
\* the returned message embeds that nonce.
C19_NoncePersisted ==
  [][ issued' # issued =>
        /\ Len(auth_nonces') = Len(auth_nonces) + 1
        /\ \A i \in DOMAIN auth_nonces : auth_nonces'[i] = auth_nonces[i]
        /\ Cardinality(issued' \ issued) = 1
        /\ \A c \in issued' \ issued :
             LET row == auth_nonces'[Len(auth_nonces')]
             IN  /\ row.wallet_address.id = c.walletAddress.id
                 /\ row.wallet_address.form = "checksum"
                 /\ ~row.used
                 /\ row.expires_at = now + NonceTTL
                 /\ c.nonce = row.nonce
                 /\ c.expiresAt = row.expires_at
                 /\ ExtractNonce(c.message) = row.nonce
                 /\ \A i \in DOMAIN auth_nonces :
                      auth_nonces[i].nonce # row.nonce ]_vars

\* A nonce was requested for an address written in lower case and is
\* stored under its checksummed form.
C19_Witness ==
  \E c \in issued :
    /\ c.walletAddress.form = "lower"
    /\ \E i \in DOMAIN auth_nonces :
         /\ auth_nonces[i].nonce = c.nonce
         /\ auth_nonces[i].wallet_address.form = "checksum"
         /\ auth_nonces[i].wallet_address.id = c.walletAddress.id

\* C20: a nonce request whose insert fails is answered 500, returns no
\* challenge and stores nothing, and every challenge that a client has
\* received is stored with the expiry it was told.
C20_NoUnstoredChallenge ==
  [][ /\ (/\ rejected' # rejected
          /\ rejected'.endpoint = "nonce" /\ rejected'.status = 500)
           => issued' = issued /\ auth_nonces' = auth_nonces
      /\ \A c \in issued' :
           \E i \in DOMAIN auth_nonces' :
             /\ auth_nonces'[i].nonce = c.nonce
             /\ auth_nonces'[i].expires_at = c.expiresAt ]_vars

\* A nonce request was answered 500 after an earlier one had succeeded.
C20_Witness ==
  /\ rejected.endpoint = "nonce" /\ rejected.status = 500
  /\ rejected.error = "Failed to generate nonce"
  /\ issued # {} /\ Cardinality(issued) = Len(auth_nonces)

\* The request that was just answered on arrival carried a malformed
\* wallet address and, on link-wallet, a valid token of the user it names.
MalformedAddress(x) ==
  \/ x.endpoint = "nonce" /\ x.arrival.malformed
  \/ x.endpoint = "verify" /\ ~x.arrival.wellFormed /\ x.arrival.malformed
  \/ /\ x.endpoint = "link" /\ x.arrival.present
     /\ x.arrival.tokenValid /\ x.arrival.subjectOk
     /\ x.arrival.address = BadAddr

\* C21: on each of the three endpoints a request with a malformed wallet
\* address (and otherwise in order) is answered 400 and writes nothing.
C21_MalformedAddress ==
  [][ (rejected = NoRejection /\ rejected' # NoRejection
       /\ MalformedAddress(rejected'))
        => rejected'.status = 400 /\ store' = store ]_vars

\* The checks of verify decide every request as they would on the table
\* from which nothing was deleted.
SameDecisions ==
  \A in \in VerifyInputs :
    LET c == VerifyChecks(in[1], in[3], in[2])
        k == VerifyChecksIn(TRUE, in[1], in[3], in[2])
    IN  /\ (c.status = 0) <=> (k.status = 0)
        /\ c.status = 0 => c.id = k.id

\* C22: the cleanup has deleted only rows whose expires_at lies more than
\* one hour back; with it running at any point, verify lets the same
\* requests past its checks, on the same rows, as it would had the deleted
\* rows been kept, and no handler is about to write to a deleted row.
C22_SweepHarmless ==
  /\ \A i \in DOMAIN auth_nonces :
       auth_nonces[i].deleted => auth_nonces[i].expires_at < now - SweepAge
  /\ \A r \in Reqs :
       pc[r] = "v_update" => ~auth_nonces[loc[r].nonceId].deleted
  /\ SameDecisions

\* The cleanup has deleted the row of a nonce that was never used, and a
\* verify request that names it with a valid signature was refused 401.
C22_Witness ==
  /\ rejected.endpoint = "verify" /\ rejected.arrival.wellFormed
  /\ rejected.arrival.validSig
  /\ rejected.status = 401
  /\ \E i \in DOMAIN auth_nonces :
       /\ auth_nonces[i].deleted /\ ~auth_nonces[i].used
       /\ auth_nonces[i].nonce = rejected.arrival.nonce
       /\ auth_nonces[i].wallet_address = rejected.arrival.address

\* No sendLike call is between two of its store calls.
LikesQuiet == \A c \in CallIds : calls[c].pc \in {"idle", "done"}

\* C23: a match record for the pair {A, B} exists only if both the like
\* A->B and the like B->A exist, and once the sendLike calls have ended it
\* exists if both likes exist; a step that adds a match is the createMatch
\* of a sendLike whose reciprocal like is stored.
C23_MatchIffMutual ==
  [][ /\ \A a, b \in Users :
           LET mutual == LikeRow(a, b) \in likes' /\ LikeRow(b, a) \in likes'
           IN  /\ SelectMatch(a, b)' # {} => mutual
               /\ (LikesQuiet' /\ mutual) => SelectMatch(a, b)' # {}
      /\ matches' # matches =>
           \E c \in CallIds :
             /\ calls[c].pc = "m_insert" /\ calls'[c].pc = "done"
             /\ matches' = matches \cup {MatchRow(calls[c].me, calls[c].toUserId)}
             /\ LikeRow(calls[c].toUserId, calls[c].me) \in likes ]_vars

\* All calls have ended: users 1 and 2 like each other and have a match,
\* one call was answered "Like sent" and a later one "It's a match!".
C23_Witness ==
  /\ LikesQuiet
  /\ LikeRow(1, 2) \in likes /\ LikeRow(2, 1) \in likes
  /\ SelectMatch(1, 2) # {}
  /\ \E c \in CallIds : calls[c].message = "Like sent"
  /\ \E c \in CallIds : calls[c].message = "It's a match!"

\* C24: the compatibility_score of every match record is the value of
\* calculateCompatibility for the profiles of its two users, in the one
\* order or the other.
C24_ScoreComputed ==
  \A m \in matches :
    m.compatibility_score
      \in {calculateCompatibility(people[m.user_id],
                                  people[m.matched_user_id], Today),
           calculateCompatibility(people[m.matched_user_id],
                                  people[m.user_id], Today)}

\* C25: every score that findMatches returns is an integer from 0 to 100;
\* the points earned are at most the points possible, which are the sum of
\* the maxima (20, 15, 15, 20, 10, 20) of the factors counted, and the
\* score is 50 when no factor is counted.
C25_ScoreRange ==
  \A i \in DOMAIN scores.data :
    LET row == scores.data[i]
        t   == Tally(people[scores.me], people[row.id], Today)
    IN  /\ row.compatibility_score \in 0..100
        /\ 0 <= t.score /\ t.score <= t.maxScore /\ t.maxScore <= 100
        /\ t.maxScore = 0 => row.compatibility_score = 50
        /\ t.maxScore > 0 =>
             /\ 2 * t.maxScore * row.compatibility_score
                  <= 200 * t.score + t.maxScore
             /\ 200 * t.score + t.maxScore
                  < 2 * t.maxScore * (row.compatibility_score + 1)

\* A score was computed from seven common interests alone, which earn the
\* 20 points of the cap: 100.
C25_Witness ==
  \E i \in DOMAIN scores.data :
    LET t == Tally(people[scores.me], people[scores.data[i].id], Today)
    IN  /\ t.maxScore = 20 /\ t.score = 20
        /\ Truthy(people[scores.me].interests)
        /\ Truthy(people[scores.data[i].id].interests)
        /\ Len(people[scores.me].interests.items) = 7
        /\ scores.data[i].compatibility_score = 100

\* C26: a disconnect() leaves isAuthenticated() false and
\* getWalletAddress() and getUserId() without a value, whatever went
\* before; isAuthenticated() turns true only in the step in which an
\* authenticateWithWallet stores the token of a successful verify, and
\* turns false only in a disconnect().
C26_DisconnectClears ==
  [][ /\ web3'.op = "disconnect" =>
           /\ ~isAuthenticated'
           /\ getWalletAddress' = Null /\ getUserId' = Null
      /\ (~isAuthenticated /\ isAuthenticated') =>
           /\ web3'.op = "verified"
           /\ \E a \in AuthIds :
                /\ web3.auths[a].pc = "w_verify"
                /\ web3'.auths[a].result # Null
                /\ web3'.web3_auth_token = web3'.auths[a].result.token
      /\ (isAuthenticated /\ ~isAuthenticated') => web3'.op = "disconnect"
      /\ (isAuthenticated /\ web3'.op # "disconnect") => isAuthenticated'
    ]_vars

\* disconnect() was called after an authenticateWithWallet had stored its
\* token, while another call was still in progress.
C26_Witness ==
  /\ web3.op = "disconnect"
  /\ ~isAuthenticated
  /\ \E a \in AuthIds : web3.auths[a].pc \in {"w_sync", "done"}
  /\ \E a \in AuthIds : web3.auths[a].pc = "w_verify"

\* C27: the nonce of every verify request that was answered with a token
\* is stored with used = true, also when the update that marks it failed.
C27_UsedBeforeToken ==
  \A r \in Reqs : VerifyOk(r) => auth_nonces[loc[r].nonceId].used

\* C28: a verify request goes past the expiry check only while the
\* expires_at of its nonce is later than the time of the request.
C28_StrictExpiry ==
  [][ \A r \in Reqs :
        (pc[r] = "idle" /\ pc'[r] = "v_update")
          => auth_nonces[loc'[r].nonceId].expires_at > now ]_vars

\* C29: when verify answers success with userId U for address A, a wallet
\* link of A owned by U is stored, also when an insert of the first login
\* failed.
C29_LinkAtSuccess ==
  [][ \A r \in Reqs :
        (pc[r] # "done" /\ VerifyOk(r)')
          => \E w \in wallet_addresses' :
               /\ w.wallet_address = resp'[r].walletAddress
               /\ w.user_id = resp'[r].userId ]_vars

\* C30: no verify request for an address A, signed with A's key, is
\* resolved to an identity whose link for A was created by a link-wallet
\* request, which proves no control of A's key.
C30_LinkNeedsKey ==
  \A r, q \in Reqs :
    ~(/\ VerifyOk(r) /\ hist[r].validSig
      /\ LinkOk(q)
      /\ resp[q].walletAddress = resp[r].walletAddress
      /\ hist[q].userId = resp[r].userId)

\* C31: of two link-wallet requests by two different identities for the
\* same address, which had no link when either arrived, at most one is
\* answered with success, and once both are answered the other one has the
\* answer of the sequential case, 400 'Wallet already linked to another
\* account'.
C31_RaceLoserRefused ==
  \A r, q \in Reqs :
    (/\ r # q /\ IsLink(r) /\ IsLink(q)
     /\ hist[r].address = hist[q].address
     /\ hist[r].userId # hist[q].userId
     /\ pc[r] = "done" /\ pc[q] = "done"
     /\ LinkOk(q))
      => /\ resp[r].status = 400
         /\ resp[r].error = "Wallet already linked to another account"

\* C32: a verify request that was answered without success has changed no
\* stored record.  Its handler found the row of its nonce with used = false
\* when it started, and no other handler presented that nonce, so the row
\* is as it was exactly if it still has used = false.
C32_FailureLeavesStore ==
  \A r \in Reqs :
    (/\ VerifyDone(r) /\ ~VerifyOk(r)
     /\ \A q \in Reqs \ {r} : IsVerify(q) => loc[q].nonceId # loc[r].nonceId)
      => ~auth_nonces[loc[r].nonceId].used

\* C33: for every two users at most one match record is stored, counting
\* the record (A, B) and the record (B, A), however the sendLike calls of
\* the two users interleave.
C33_OneMatchPerPair ==
  \A a, b \in Users : Cardinality(SelectMatch(a, b)) <= 1

\* C34: of the sendLike calls of one user for one other user that have
\* returned, all but one returned 'Already liked', none returned an error,
\* and one like of that user for the other is stored.
C34_LikeIdempotent ==
  \A c, d \in CallIds :
    (/\ c # d
     /\ calls[c].pc = "done" /\ calls[d].pc = "done"
     /\ calls[c].me \in Users /\ calls[c].toUserId \in Users
     /\ calls[d].me = calls[c].me /\ calls[d].toUserId = calls[c].toUserId)
      => /\ calls[c].error = "" /\ calls[d].error = ""
         /\ calls[c].message = "Already liked"
              \/ calls[d].message = "Already liked"
         /\ Cardinality(SelectLike(calls[c].me, calls[c].toUserId)) = 1

\* C35: for every user the number of accepted matches that getProfileStats
\* reports is the number of matches that getMyMatches returns.
C35_StatsCountMatches ==
  \A u \in Users : getProfileStats(u).matches = Cardinality(getMyMatches(u))

\* The three values that authenticateWithWallet keeps in localStorage.
Stored == <<web3.web3_auth_token, web3.web3_wallet_address,
            web3.web3_user_id>>

\* C36: a step of authenticateWithWallet changes the three stored values
\* only when the verify response has arrived with success and a token, and
\* then it stores the token, the address and the user id of that response
\* together; a step in which the call fails (connecting, requesting the
\* nonce, signing or verifying) leaves the three values as they were and
\* hands an error to the caller.
C36_StoredAfterVerify ==
  [][ /\ (Stored' # Stored /\ web3'.op # "disconnect")
           => \E a \in AuthIds :
                /\ web3.auths[a].pc = "w_verify"
                /\ web3'.auths[a].pc = "w_sync"
                /\ web3'.auths[a].result # Null
                /\ web3'.auths[a].result.success
                /\ web3'.auths[a].result.token # Null
                /\ Stored' = <<web3'.auths[a].result.token,
                               web3'.auths[a].result.walletAddress,
                               web3'.auths[a].result.userId>>
      /\ \A a \in AuthIds :
           (web3.auths[a].pc # "thrown" /\ web3'.auths[a].pc = "thrown")
             => Stored' = Stored /\ web3'.auths[a].error # "" ]_vars

\* One call has stored the result of its verify step, and the verify step
\* of another call has just failed: the stored values are those of the
\* first call.
C36_Witness ==
  /\ web3.kind = "web3" /\ web3.op = "verify"
  /\ \E a, b \in AuthIds :
       /\ web3.auths[a].pc = "thrown"
       /\ web3.auths[a].error = "Verification failed"
       /\ web3.auths[b].pc \in {"w_sync", "done"}
       /\ Stored = <<web3.auths[b].result.token,
                     web3.auths[b].result.walletAddress,
                     web3.auths[b].result.userId>>
       /\ web3.auths[b].result.userId = 2

\* C37: every request is answered exactly once.  A handler ends only with
\* a response, a response that was sent is not replaced or followed by
\* another, and every handler that has started reaches its response once
\* its store calls come back, whether they return a result, return an error
\* or throw.  A request refused before the first write is answered in the
\* step in which it arrives.
C37_OneResponse ==
  /\ [][ \A r \in Reqs :
           /\ pc'[r] = "done" => resp'[r] # NoResp
           /\ resp'[r] # NoResp => pc'[r] = "done"
           /\ resp[r] # NoResp => resp'[r] = resp[r] ]_vars
  /\ \A r \in Reqs : (pc[r] # "idle") ~> (pc[r] = "done" /\ resp[r] # NoResp)

\* A verify request was answered 500 by its catch block after a store call
\* threw, and a link-wallet request was answered with success.
C37_Witness ==
  \E r, q \in Reqs :
    /\ IsVerify(r) /\ pc[r] = "done"
    /\ resp[r].status = 500 /\ resp[r].error = "Internal server error"
    /\ LinkOk(q)

====
